---- MODULE Spec2Model ----
(***************************************************************************)
(* camper: the paginated query engine (client::List::list), the request   *)
(* builder and response model it uses (client::query), and the `list`     *)
(* subcommand that drives it (main.rs).                                    *)
(*                                                                         *)
(* One behaviour is one run of `camper list`: the command picks the        *)
(* resource kind, List::list drains the pages one request at a time, and  *)
(* the network (the environment) answers each request with a transport    *)
(* failure or an HTTP response of any status and body.                     *)
(*                                                                         *)
(* A second state machine (SpecConfig) follows the configuration file      *)
(* through runs of `camper configure`: Config::save, Config::load and the *)
(* TOML text between them (config.rs).                                     *)
(***************************************************************************)
EXTENDS Integers, Sequences, FiniteSets, TLC

VARIABLES
    pc,            \* "main" | "fetch" | "await" | "done" | "panicked"
    clock,         \* wall clock, Unix seconds (Utc::now().timestamp())
    config,        \* the loaded Config (fan_id, identity)
    opts,          \* ListOpts of the command line (fan_id, wishlist)
    fan_id,        \* List::list argument
    identity,      \* List::list argument
    url,           \* local `url` of List::list
    token,         \* local `token` of List::list
    items,         \* local `items` of List::list (the accumulator)
    requests,      \* every outbound request, in the order sent
    nresp,         \* how many fetches the network has answered
    lastResponse,  \* what the network answered to the latest request
    served,        \* wire items of every page-shaped body answered, in order
    startedAt,     \* the clock when List::list was invoked
    result,        \* what List::list returned to its caller
    table,         \* rows printed by the `list` subcommand
    cfgFile,       \* ~/.camper/config.toml: whether it exists, and its bytes
    lastSaved,     \* the Config of the latest successful Config::save
    lastLoad       \* what Config::load returned, if run since the latest save

listVars == <<pc, clock, config, opts, fan_id, identity, url, token, items,
              requests, nresp, lastResponse, served, startedAt, result, table>>

cfgVars == <<cfgFile, lastSaved, lastLoad>>

vars == <<pc, clock, config, opts, fan_id, identity, url, token, items,
          requests, nresp, lastResponse, served, startedAt, result, table,
          cfgFile, lastSaved, lastLoad>>

-----------------------------------------------------------------------------
(* Bounds of the model *)

\* the collection the server holds spans at most this many pages: the page
\* that answers request number MaxPages says that no more is available
MaxPages == 3
\* how many seconds the wall clock may advance during one run
MaxTicks == 1

-----------------------------------------------------------------------------
(* Option<T> *)

Some(v) == [some |-> TRUE, val |-> v]
NoneU32 == [some |-> FALSE, val |-> 0]
NoneStr == [some |-> FALSE, val |-> ""]

\* Option::or
OptionOr(a, b) == IF a.some THEN a ELSE b

-----------------------------------------------------------------------------
(* Inputs *)

\* wall-clock reading at program start
StartTimes == {1699999999}

\* configurations that pass Config::is_valid (fan_id > 0, identity non-empty)
Configs == { [fan_id |-> Some(1234), identity |-> Some("7%09t%09aaa")] }

\* --fan-id on the command line, or absent
OptFanIds == {NoneU32, Some(77)}

\* RFC-2822 date strings as they appear on the wire: the civil time they
\* spell (seconds), the UTC offset they spell (seconds east), or not a date
DateMst  == [rfc2822 |-> TRUE, local |-> 1136214245, offset |-> -25200]
DateUtc  == [rfc2822 |-> TRUE, local |-> 1136214000, offset |-> 0]
NotADate == [rfc2822 |-> FALSE, local |-> 0, offset |-> 0]

WireA == [added |-> DateMst, band_name |-> "Band A", album_id |-> 30,
          album_title |-> "Album A"]
WireB == [added |-> DateUtc, band_name |-> "Band B", album_id |-> 10,
          album_title |-> "Album B"]
WireBad == [added |-> NotADate, band_name |-> "Band C", album_id |-> 20,
            album_title |-> "Album C"]

WireItems == {WireA, WireB, WireBad}

\* item lists a page may carry: every arrangement of distinct wire items
PageItemLists ==
    { s \in UNION { [1..n -> WireItems] : n \in 0..Cardinality(WireItems) } :
        \A i, j \in DOMAIN s : i # j => s[i] # s[j] }

\* last_token values the server may answer (empty, and one that can repeat)
ServerTokens == {"", "t1"}

\* HTTP statuses the server may answer
Statuses == {200, 500}

\* a body that is not JSON at all: decoding fails before any item is read
GarbageBody ==
    [shape |-> FALSE, early |-> TRUE, items |-> <<>>, last_token |-> "",
     more_available |-> FALSE]

PageBodies ==
    { [shape |-> TRUE, early |-> FALSE, items |-> l, last_token |-> t,
       more_available |-> m] :
        l \in PageItemLists, t \in ServerTokens, m \in BOOLEAN }

\* bodies that are not of the page shape but carry items: the fault is met
\* before the items are decoded (`early`: a field of the wrong type ahead of
\* "items") or after them (a field missing, or wrong behind "items")
BrokenBodies ==
    { [shape |-> FALSE, early |-> e, items |-> l, last_token |-> "",
       more_available |-> FALSE] :
        e \in BOOLEAN, l \in { x \in PageItemLists : Len(x) <= 1 } }

Bodies == PageBodies \cup BrokenBodies \cup {GarbageBody}

NoResponse == [kind |-> "none", status |-> 0, body |-> GarbageBody]
TransportFailure == [kind |-> "transport", status |-> 0, body |-> GarbageBody]
HttpResponse(status, body) == [kind |-> "http", status |-> status, body |-> body]

-----------------------------------------------------------------------------
(* client::query: request and response data *)

DEFAULT_COUNT == 20

\* a larger page size than the protocol constant
QueryRequestData_new_bigger_count(f, t) ==
    [fan_id |-> f, older_than_token |-> t, count |-> 5 * DEFAULT_COUNT]

\* QueryRequestData::new
QueryRequestData_new(f, t) ==
    [fan_id |-> f, older_than_token |-> t, count |-> DEFAULT_COUNT]

Digit(d) ==
    CASE d = 0 -> "0" [] d = 1 -> "1" [] d = 2 -> "2" [] d = 3 -> "3"
      [] d = 4 -> "4" [] d = 5 -> "5" [] d = 6 -> "6" [] d = 7 -> "7"
      [] d = 8 -> "8" [] d = 9 -> "9"

RECURSIVE Decimal(_)
Decimal(n) == IF n < 10 THEN Digit(n) ELSE Decimal(n \div 10) \o Digit(n % 10)

\* Display for i64, as format!("{}") prints it
FormatInt(n) == IF n < 0 THEN "-" \o Decimal(-n) ELSE Decimal(n)

\* utc_now_token, reading the wall clock `now`
utc_now_token(now) == FormatInt(now) \o ":0:a::"

\* DateTime::parse_from_rfc2822
parse_from_rfc2822(buf) ==
    IF buf.rfc2822
    THEN [ok |-> TRUE, local |-> buf.local, offset |-> buf.offset]
    ELSE [ok |-> FALSE, local |-> 0, offset |-> 0]

\* DateTime::with_timezone(&Utc): the same instant, as seconds since the epoch
with_timezone_utc(dt) == dt.local - dt.offset

\* deserialize_rfc2822_datetime: unwrap() panics on a parse error
deserialize_rfc2822_datetime(buf) ==
    LET parsed == parse_from_rfc2822(buf)
    IN  IF parsed.ok
        THEN [panic |-> FALSE, utc |-> with_timezone_utc(parsed)]
        ELSE [panic |-> TRUE, utc |-> 0]

\* Deserialize for QueryItem
QueryItem(w) ==
    [added |-> deserialize_rfc2822_datetime(w.added).utc,
     band_name |-> w.band_name,
     album_id |-> w.album_id,
     album_title |-> w.album_title]

QueryItems(ws) == [i \in 1..Len(ws) |-> QueryItem(ws[i])]

EmptyPage == [items |-> <<>>, last_token |-> "", more_available |-> FALSE]

\* Response::json::<QueryResponseData>(): the fields are decoded as they
\* come, so a malformed date panics as soon as it is reached, and a fault of
\* the body's shape is an error only if it is met before that
ResponseJson(body) ==
    IF ~body.shape /\ body.early
    THEN [tag |-> "err", page |-> EmptyPage]
    ELSE IF \E i \in 1..Len(body.items) :
                deserialize_rfc2822_datetime(body.items[i].added).panic
    THEN [tag |-> "panic", page |-> EmptyPage]
    ELSE IF ~body.shape
    THEN [tag |-> "err", page |-> EmptyPage]
    ELSE [tag |-> "ok",
          page |-> [items |-> QueryItems(body.items),
                    last_token |-> body.last_token,
                    more_available |-> body.more_available]]

-----------------------------------------------------------------------------
(* client::query::QueryBuilder *)

\* QueryBuilder::new
QueryBuilder_new(u) ==
    [url |-> u, fan_id |-> 0, token |-> NoneStr]

\* QueryBuilder::fan_id
QueryBuilder_fan_id(b, f) == [b EXCEPT !.fan_id = f]

\* QueryBuilder::identity, called by List::list; request.rs does not define
\* it. Written from the specification: the builder takes the credential as
\* an opaque value and leaves its other settings alone
QueryBuilder_identity(b, id) ==
    [url |-> b.url, fan_id |-> b.fan_id, token |-> b.token, identity |-> Some(id)]

\* QueryBuilder::token
QueryBuilder_token(b, t) == [b EXCEPT !.token = Some(t)]

\* QueryBuilder::query, up to send(), as request.rs has it: the outbound
\* request is a POST of the JSON body to the url, and no header or cookie
\* is set (`identity` is the credential the request carries)
QueryBuilder_query(b, now) ==
    LET t == IF b.token.some THEN b.token.val ELSE utc_now_token(now)
    IN  [method |-> "POST", url |-> b.url,
         json |-> QueryRequestData_new(b.fan_id, t),
         identity |-> NoneStr]

\* the part of the query that goes with QueryBuilder::identity, written from
\* the specification: the credential the builder holds is attached to the
\* request as it is, and nothing else of the request changes
AttachIdentity(req, b) == [req EXCEPT !.identity = b.identity]

\* QueryBuilder::query, from send().await? on: send() fails on a transport
\* failure only, and json() decodes the body of a response of any status
QueryOutcome(net) ==
    IF net.kind = "transport"
    THEN [tag |-> "err", page |-> EmptyPage]
    ELSE ResponseJson(net.body)

-----------------------------------------------------------------------------
(* client::List *)

\* COLLECTION_NAME of the two implementors
COLLECTION_NAME(kind) == IF kind = "Wishlist" THEN "wishlist" ELSE "collection"

\* the `url` of List::list
ListUrl(name) ==
    "https://bandcamp.com/api/fancollection/1/" \o name \o "_items"

\* a request built without the call of identity()
ListQuery_no_identity(u, f, id, t, now) ==
    QueryBuilder_query(
        QueryBuilder_token(QueryBuilder_fan_id(QueryBuilder_new(u), f), t),
        now)

\* the request one loop iteration of List::list builds
ListQuery(u, f, id, t, now) ==
    LET b == QueryBuilder_token(
                 QueryBuilder_identity(
                     QueryBuilder_fan_id(QueryBuilder_new(u), f), id),
                 t)
    IN  AttachIdentity(QueryBuilder_query(b, now), b)

\* the new page put in front of the accumulator
Extend_prepend(acc, new) == new \o acc

\* items.extend(response.items)
Extend(acc, new) == acc \o new

\* the cursor left as it was
NextToken_stale(old, response) == old

\* token = response.last_token
NextToken(old, response) == response.last_token

\* the loop ended by an empty page instead of the flag
LoopBreaks_on_empty_items(response) == response.items = <<>>

\* the loop also ended by an empty cursor
LoopBreaks_on_empty_token(response) ==
    ~response.more_available \/ response.last_token = ""

\* if !response.more_available { break }
LoopBreaks(response) == ~response.more_available

\* what List::list returns
Ok(v) == [tag |-> "ok", value |-> v]
Err == [tag |-> "err", value |-> <<>>]
NotReturned == [tag |-> "none", value |-> <<>>]

\* `.await?` of List::list: the error is returned, the accumulator dropped
FetchFailed(acc) == Err

-----------------------------------------------------------------------------
(* main.rs: the `list` subcommand *)

\* the flag ignored
ListKind_always_collection(o) == "Collection"

\* which implementor of List the subcommand calls
ListKind(o) == IF o.wishlist THEN "Wishlist" ELSE "Collection"

\* the rows of the printed table
TableRows(its) ==
    [i \in 1..Len(its) |->
        <<its[i].album_id, its[i].band_name, its[i].album_title>>]

-----------------------------------------------------------------------------
(* config.rs: Config and its TOML text. Text is a sequence of characters. *)

NoneText == [some |-> FALSE, val |-> <<>>]

\* Default for Config
Config_default ==
    [fan_id |-> NoneU32, identity |-> NoneText, library |-> NoneText,
     format |-> NoneStr]

\* Config::new
Config_new(f, id, lib, fmt) ==
    [fan_id |-> Some(f), identity |-> Some(id), library |-> Some(lib),
     format |-> Some(fmt)]

\* the variants of Format
FormatVariants ==
    {"Mp3V0", "Mp3", "Flac", "Aac", "OggVorbis", "Alac", "Wav", "Aiff"}

\* the name serde writes and reads for a Format (the variant's own name)
FormatText(f) ==
    CASE f = "Mp3V0" -> <<"M", "p", "3", "V", "0">>
      [] f = "Mp3" -> <<"M", "p", "3">>
      [] f = "Flac" -> <<"F", "l", "a", "c">>
      [] f = "Aac" -> <<"A", "a", "c">>
      [] f = "OggVorbis" -> <<"O", "g", "g", "V", "o", "r", "b", "i", "s">>
      [] f = "Alac" -> <<"A", "l", "a", "c">>
      [] f = "Wav" -> <<"W", "a", "v">>
      [] f = "Aiff" -> <<"A", "i", "f", "f">>

KeyFanId == <<"f", "a", "n", "_", "i", "d">>
KeyIdentity == <<"i", "d", "e", "n", "t", "i", "t", "y">>
KeyLibrary == <<"l", "i", "b", "r", "a", "r", "y">>
KeyFormat == <<"f", "o", "r", "m", "a", "t">>

RECURSIVE DecimalText(_)
DecimalText(n) ==
    IF n < 10 THEN <<Digit(n)>> ELSE DecimalText(n \div 10) \o <<Digit(n % 10)>>

\* one `key = integer` line of the TOML serializer
TomlIntLine(key, n) == key \o <<" ", "=", " ">> \o DecimalText(n) \o <<"\n">>

\* one `key = "string"` line of the TOML serializer
TomlStrLine(key, str) ==
    key \o <<" ", "=", " ", "\"">> \o str \o <<"\"", "\n">>

\* toml::to_string(&Config): the fields in declaration order, None left out
toml_to_string(c) ==
    (IF c.fan_id.some THEN TomlIntLine(KeyFanId, c.fan_id.val) ELSE <<>>)
    \o (IF c.identity.some THEN TomlStrLine(KeyIdentity, c.identity.val) ELSE <<>>)
    \o (IF c.library.some THEN TomlStrLine(KeyLibrary, c.library.val) ELSE <<>>)
    \o (IF c.format.some THEN TomlStrLine(KeyFormat, FormatText(c.format.val))
        ELSE <<>>)

DigitChars == {"0", "1", "2", "3", "4", "5", "6", "7", "8", "9"}

\* the characters of a TOML bare key
BareKeyChars ==
    DigitChars \cup {"_", "-"} \cup
    {"a", "b", "c", "d", "e", "f", "g", "h", "i", "j", "k", "l", "m",
     "n", "o", "p", "q", "r", "s", "t", "u", "v", "w", "x", "y", "z",
     "A", "B", "C", "D", "E", "F", "G", "H", "I", "J", "K", "L", "M",
     "N", "O", "P", "Q", "R", "S", "T", "U", "V", "W", "X", "Y", "Z"}

IsWs(c) == c \in {" ", "\t"}

\* the text split at its newlines
RECURSIVE SplitLines(_)
SplitLines(t) ==
    IF \A i \in 1..Len(t) : t[i] # "\n"
    THEN <<t>>
    ELSE LET i == CHOOSE k \in 1..Len(t) :
                    t[k] = "\n" /\ \A j \in 1..(k - 1) : t[j] # "\n"
         IN  <<SubSeq(t, 1, i - 1)>> \o SplitLines(SubSeq(t, i + 1, Len(t)))

RECURSIVE TrimLeft(_)
TrimLeft(t) == IF t # <<>> /\ IsWs(t[1]) THEN TrimLeft(Tail(t)) ELSE t

RECURSIVE TrimRight(_)
TrimRight(t) ==
    IF t # <<>> /\ IsWs(t[Len(t)]) THEN TrimRight(SubSeq(t, 1, Len(t) - 1)) ELSE t

RECURSIVE ParseDecimal(_)
ParseDecimal(t) ==
    IF t = <<>> THEN 0
    ELSE 10 * ParseDecimal(SubSeq(t, 1, Len(t) - 1))
         + (CHOOSE d \in 0..9 : Digit(d) = t[Len(t)])

TomlBadLine == [ok |-> FALSE, blank |-> FALSE, key |-> <<>>, kind |-> "", int |-> 0, str |-> <<>>]
TomlBlankLine == [ok |-> TRUE, blank |-> TRUE, key |-> <<>>, kind |-> "", int |-> 0, str |-> <<>>]

\* the TOML parser on one line: blank, or `bare-key = value` with value a
\* decimal integer or a basic string without escapes; anything else (a key
\* without `=`, a value cut short, a quote that never closes) is an error
TomlLine(line) ==
    LET s == TrimRight(TrimLeft(line))
        k == CHOOSE n \in 0..Len(s) :
                /\ \A i \in 1..n : s[i] \in BareKeyChars
                /\ n < Len(s) => s[n + 1] \notin BareKeyChars
        afterKey == TrimLeft(SubSeq(s, k + 1, Len(s)))
        v == TrimLeft(Tail(afterKey))
    IN  IF s = <<>> THEN TomlBlankLine
        ELSE IF k = 0 \/ afterKey = <<>> \/ afterKey[1] # "=" THEN TomlBadLine
        ELSE IF /\ v # <<>>
                /\ \A i \in 1..Len(v) : v[i] \in DigitChars
                /\ (Len(v) = 1 \/ v[1] # "0")
        THEN [ok |-> TRUE, blank |-> FALSE, key |-> SubSeq(s, 1, k),
              kind |-> "int", int |-> ParseDecimal(v), str |-> <<>>]
        ELSE IF /\ Len(v) >= 2
                /\ v[1] = "\"" /\ v[Len(v)] = "\""
                /\ \A i \in 2..(Len(v) - 1) : v[i] \notin {"\"", "\\"}
        THEN [ok |-> TRUE, blank |-> FALSE, key |-> SubSeq(s, 1, k),
              kind |-> "str", int |-> 0, str |-> SubSeq(v, 2, Len(v) - 1)]
        ELSE TomlBadLine

LoadOk(c) == [tag |-> "ok", cfg |-> c]
LoadErr == [tag |-> "err", cfg |-> Config_default]
NotLoaded == [tag |-> "none", cfg |-> Config_default]

\* toml::from_str::<Config>: every line must parse, no key may occur twice,
\* unknown keys are ignored, a known key must hold a value of its field's
\* type, and a field without a line is None
toml_from_str(text) ==
    LET lines == SplitLines(text)
        kv == [i \in 1..Len(lines) |-> TomlLine(lines[i])]
        Has(key) == \E i \in 1..Len(kv) : ~kv[i].blank /\ kv[i].key = key
        At(key) == kv[CHOOSE i \in 1..Len(kv) : ~kv[i].blank /\ kv[i].key = key]
        StrOk(key) == Has(key) => At(key).kind = "str"
        StrField(key) == IF Has(key) THEN Some(At(key).str) ELSE NoneText
    IN  IF \E i \in 1..Len(kv) : ~kv[i].ok THEN LoadErr
        ELSE IF \E i, j \in 1..Len(kv) :
                    i # j /\ ~kv[i].blank /\ ~kv[j].blank /\ kv[i].key = kv[j].key
        THEN LoadErr
        ELSE IF ~(/\ Has(KeyFanId) => At(KeyFanId).kind = "int"
                  /\ StrOk(KeyIdentity)
                  /\ StrOk(KeyLibrary)
                  /\ StrOk(KeyFormat)
                  /\ Has(KeyFormat) =>
                        \E f \in FormatVariants : FormatText(f) = At(KeyFormat).str)
        THEN LoadErr
        ELSE LoadOk(
                [fan_id |-> IF Has(KeyFanId) THEN Some(At(KeyFanId).int) ELSE NoneU32,
                 identity |-> StrField(KeyIdentity),
                 library |-> StrField(KeyLibrary),
                 format |-> IF Has(KeyFormat)
                            THEN Some(CHOOSE f \in FormatVariants :
                                        FormatText(f) = At(KeyFormat).str)
                            ELSE NoneStr])

NoFile == [exists |-> FALSE, bytes |-> <<>>]

\* Config::load: the file's text parsed, or the default when it cannot be read
Config_load(file) ==
    IF file.exists THEN toml_from_str(file.bytes) ELSE LoadOk(Config_default)

\* write! on a file opened with write(true) alone: the text goes over the
\* first bytes of the file and whatever lies beyond them stays
WriteAtStart(old, text) ==
    text \o SubSeq(old, Len(text) + 1, Len(old))

\* Config::save: create the file if missing, open it for writing, write the
\* TOML text
Config_save(c, file) ==
    [exists |-> TRUE, bytes |-> WriteAtStart(file.bytes, toml_to_string(c))]

\* configure_update: the options given replace the loaded values
UpdatedConfig(c, o) ==
    [fan_id |-> IF o.fan_id.some THEN o.fan_id ELSE c.fan_id,
     identity |-> IF o.identity.some THEN o.identity ELSE c.identity,
     library |-> IF o.library.some THEN o.library ELSE c.library,
     format |-> IF o.default_format.some THEN o.default_format ELSE c.format]

\* the file system: the directories that exist, by canonical path, the
\* symbolic links to directories (each target a canonical path), and the
\* working directory of the run
FsDirs ==
    { <<"/">>, <<"/", "t", "m", "p">>, <<"/", "v", "a", "r">>,
      <<"/", "r", "u", "n">> }
FsLinks ==
    { [link |-> <<"/", "v", "a", "r", "/", "r", "u", "n">>,
       target |-> <<"/", "r", "u", "n">>] }
Cwd == <<"/">>

\* the components of a path: the names between its "/", empty names (a
\* leading, trailing or doubled "/") left out
RECURSIVE Components(_)
Components(path) ==
    IF path = <<>> THEN <<>>
    ELSE LET stops == { k \in 1..Len(path) : path[k] = "/" }
             k == IF stops = {} THEN Len(path) + 1
                  ELSE CHOOSE x \in stops : \A y \in stops : x <= y
             name == SubSeq(path, 1, k - 1)
             rest == Components(SubSeq(path, k + 1, Len(path)))
         IN  IF name = <<>> THEN rest ELSE <<name>> \o rest

\* the absolute path made of the components `names`
RECURSIVE JoinPath(_)
JoinPath(names) ==
    IF names = <<>> THEN <<"/">>
    ELSE IF Len(names) = 1 THEN <<"/">> \o names[1]
    ELSE JoinPath(SubSeq(names, 1, Len(names) - 1)) \o <<"/">> \o names[Len(names)]

\* the walk of canonicalize: from the directory `at` (canonical, as
\* components) through the components `names`, "." skipped, ".." to the
\* parent, a link replaced by its target, an error at a name that does not
\* exist
RECURSIVE Resolve(_, _)
Resolve(at, names) ==
    IF names = <<>> THEN [ok |-> TRUE, path |-> JoinPath(at)]
    ELSE LET name == Head(names)
             entry == JoinPath(Append(at, name))
         IN  IF name = <<".">> THEN Resolve(at, Tail(names))
             ELSE IF name = <<".", ".">>
             THEN Resolve(IF at = <<>> THEN <<>> ELSE SubSeq(at, 1, Len(at) - 1),
                          Tail(names))
             ELSE IF \E l \in FsLinks : l.link = entry
             THEN Resolve(Components((CHOOSE l \in FsLinks : l.link = entry).target),
                          Tail(names))
             ELSE IF entry \in FsDirs THEN Resolve(Append(at, name), Tail(names))
             ELSE [ok |-> FALSE, path |-> <<>>]

\* Path::canonicalize: the canonical path of an existing directory (a
\* relative path is taken from the working directory), or an error when the
\* path is empty or does not exist
canonicalize(path) ==
    IF path = <<>> THEN [ok |-> FALSE, path |-> <<>>]
    ELSE IF path[1] = "/" THEN Resolve(<<>>, Components(path))
    ELSE Resolve(Components(Cwd), Components(path))

\* values given to `configure`
CfgFanIds == {7, 1234}
CfgIdentities == {<<"a">>, <<"a", "b", "c">>}
CfgLibraries ==
    { <<"/", "t", "m", "p">>,
      <<"/", ".", "/", "t", "m", "p", "/">>,
      <<"/", "v", "a", "r", "/", "r", "u", "n">>,
      <<"/", "/", "t", "m", "p", "/", ".", ".">>,
      <<"/", "m">> }
CfgFormats == {"Flac", "Mp3"}

\* ConfigureOpts of `configure --update`: each option given or not
UpdateOpts ==
    [fan_id : {NoneU32} \cup {Some(f) : f \in CfgFanIds},
     identity : {NoneText} \cup {Some(i) : i \in CfgIdentities},
     library : {NoneText} \cup {Some(l) : l \in CfgLibraries},
     default_format : {NoneStr} \cup {Some(f) : f \in CfgFormats}]

NoneConfig == [some |-> FALSE, val |-> Config_default]

-----------------------------------------------------------------------------
(* State machine *)

Init ==
    /\ pc = "main"
    /\ clock \in StartTimes
    /\ config \in Configs
    /\ opts \in [fan_id : OptFanIds, wishlist : BOOLEAN]
    /\ fan_id = 0
    /\ identity = ""
    /\ url = ""
    /\ token = ""
    /\ items = <<>>
    /\ requests = <<>>
    /\ nresp = 0
    /\ lastResponse = NoResponse
    /\ served = <<>>
    /\ startedAt = 0
    /\ result = NotReturned
    /\ table = <<>>
    /\ cfgFile = NoFile
    /\ lastSaved = NoneConfig
    /\ lastLoad = NotLoaded

\* the wall clock advances
Tick ==
    /\ pc \in {"main", "fetch", "await"}
    /\ \E t0 \in StartTimes : clock >= t0 /\ clock < t0 + MaxTicks
    /\ clock' = clock + 1
    /\ UNCHANGED <<pc, config, opts, fan_id, identity, url, token, items,
                   requests, nresp, lastResponse, served, startedAt, result,
                   table>>
    /\ UNCHANGED cfgVars

\* main.rs list(), into List::list up to the head of its loop
ListStart ==
    /\ pc = "main"
    /\ fan_id' = OptionOr(opts.fan_id, config.fan_id).val
    /\ identity' = config.identity.val
    /\ items' = <<>>
    /\ url' = ListUrl(COLLECTION_NAME(ListKind(opts)))
    /\ token' = utc_now_token(clock)
    /\ startedAt' = clock
    /\ pc' = "fetch"
    /\ UNCHANGED <<clock, config, opts, requests, nresp, lastResponse, served,
                   result, table>>
    /\ UNCHANGED cfgVars

\* one loop iteration, up to send(): build the query and post it
SendRequest ==
    /\ pc = "fetch"
    /\ requests' = Append(requests, ListQuery(url, fan_id, identity, token, clock))
    /\ pc' = "await"
    /\ UNCHANGED <<clock, config, opts, fan_id, identity, url, token, items,
                   nresp, lastResponse, served, startedAt, result, table>>
    /\ UNCHANGED cfgVars

\* the rest of the iteration, once the network has answered with `net`
Complete(net) ==
    LET out == QueryOutcome(net)
        page == out.page
    IN  /\ nresp' = nresp + 1
        /\ lastResponse' = net
        /\ served' = IF net.kind = "http" /\ net.body.shape
                     THEN served \o net.body.items ELSE served
        /\ CASE out.tag = "err" ->
                  /\ pc' = "done"
                  /\ result' = FetchFailed(items)
                  /\ UNCHANGED <<items, token, table>>
             [] out.tag = "panic" ->
                  /\ pc' = "panicked"
                  /\ UNCHANGED <<items, token, result, table>>
             [] out.tag = "ok" ->
                  /\ items' = Extend(items, page.items)
                  /\ token' = NextToken(token, page)
                  /\ IF LoopBreaks(page)
                     THEN /\ pc' = "done"
                          /\ result' = Ok(items')
                          /\ table' = TableRows(items')
                     ELSE /\ pc' = "fetch"
                          /\ UNCHANGED <<result, table>>
        /\ UNCHANGED <<clock, config, opts, fan_id, identity, url, requests,
                       startedAt>>
        /\ UNCHANGED cfgVars

\* send() fails: connection failure or timeout
TransportError ==
    /\ pc = "await"
    /\ Complete(TransportFailure)

\* send() succeeds: an HTTP response of some status and body arrives (the
\* server announces a further page for as long as its collection has one)
Receive ==
    /\ pc = "await"
    /\ \E s \in Statuses, b \in Bodies :
          /\ b.more_available => Len(requests) < MaxPages
          /\ Complete(HttpResponse(s, b))

Next == Tick \/ ListStart \/ SendRequest \/ TransportError \/ Receive

Spec == Init /\ [][Next]_vars

-----------------------------------------------------------------------------
(* State machine of the `configure` subcommand: each step is one run of the
   program against the configuration file the runs before it left *)

InitConfig ==
    /\ pc = "configure"
    /\ clock = 0
    /\ config = Config_default
    /\ opts = [fan_id |-> NoneU32, wishlist |-> FALSE]
    /\ fan_id = 0
    /\ identity = ""
    /\ url = ""
    /\ token = ""
    /\ items = <<>>
    /\ requests = <<>>
    /\ nresp = 0
    /\ lastResponse = NoResponse
    /\ served = <<>>
    /\ startedAt = 0
    /\ result = NotReturned
    /\ table = <<>>
    /\ cfgFile = NoFile
    /\ lastSaved = NoneConfig
    /\ lastLoad = NotLoaded

\* a run that only loads: main's Config::load()?, then `configure --print`
\* (or main's early return when the load fails)
MainLoad ==
    /\ lastLoad' = Config_load(cfgFile)
    /\ UNCHANGED <<cfgFile, lastSaved>>
    /\ UNCHANGED listVars

\* a run of `configure` that is to save `c`: main loads first and returns
\* the error when the load fails, and the subcommand returns its own error
\* when it does not get as far as the save (`reaches` false); otherwise the
\* Config is saved
ConfigureRun(loaded, reaches, c) ==
    IF loaded.tag = "err" \/ ~reaches
    THEN /\ lastLoad' = loaded
         /\ UNCHANGED <<cfgFile, lastSaved>>
    ELSE /\ cfgFile' = Config_save(c, cfgFile)
         /\ lastSaved' = Some(c)
         /\ lastLoad' = NotLoaded

\* `configure` with all four values: configure_create. The library path is
\* canonicalized, which fails when it does not exist; the canonical path is
\* the one saved
ConfigureCreate ==
    /\ \E loaded \in {Config_load(cfgFile)} :
       \E f \in CfgFanIds, id \in CfgIdentities, lib \in CfgLibraries,
          fmt \in CfgFormats :
            LET library == canonicalize(lib)
            IN  ConfigureRun(loaded, library.ok,
                             Config_new(f, id, library.path, fmt))
    /\ UNCHANGED listVars

\* `configure --update` with some options: configure_update. The library
\* path is saved as given
ConfigureUpdate ==
    /\ \E loaded \in {Config_load(cfgFile)} :
       \E o \in UpdateOpts :
            ConfigureRun(loaded, TRUE, UpdatedConfig(loaded.cfg, o))
    /\ UNCHANGED listVars

NextConfig == MainLoad \/ ConfigureCreate \/ ConfigureUpdate

SpecConfig == InitConfig /\ [][NextConfig]_vars

-----------------------------------------------------------------------------
(* Properties *)

\* the latest answer is an HTTP response whose body has the page shape
GotPage == lastResponse.kind = "http" /\ lastResponse.body.shape

\* the latest answer decoded into a page (every date well-formed)
DecodedPage == GotPage /\ ResponseJson(lastResponse.body).tag = "ok"

\* some item of the latest page carries a date that is not RFC-2822
HasBadDate ==
    \E i \in 1..Len(lastResponse.body.items) :
        ~lastResponse.body.items[i].added.rfc2822

Is2xx(status) == status \in 200..299

CollectionUrl == "https://bandcamp.com/api/fancollection/1/collection_items"
WishlistUrl == "https://bandcamp.com/api/fancollection/1/wishlist_items"

\* C1: when List::list returns Ok, the value is exactly the concatenation of
\* the items of every page served, page by page and in server order: nothing
\* dropped, duplicated or re-sorted.
C1_ReturnsConcatenation ==
    result.tag = "ok" =>
        /\ pc = "done"
        /\ result.value = QueryItems(served)
        /\ ~lastResponse.body.more_available

\* C1 witness: two pages [B, A] (true) and [A] (false) were drained; the
\* result holds the three items in served order, which is not sorted.
C1_Witness ==
    /\ result.tag = "ok"
    /\ nresp = 2
    /\ served = <<WireB, WireA, WireA>>
    /\ result.value = <<QueryItem(WireB), QueryItem(WireA), QueryItem(WireA)>>
    /\ result.value[2].added = 1136239445

\* C2: the first request carries "<T>:0:a::" with T the clock read once when
\* List::list was invoked, and every later request carries exactly the
\* last_token of the response before it (never a recomputed clock token).
C2_CursorPropagation ==
    /\ requests # <<>> =>
          /\ requests[1].json.older_than_token = FormatInt(startedAt) \o ":0:a::"
          /\ startedAt = 1699999999 =>
                requests[1].json.older_than_token = "1699999999:0:a::"
          /\ startedAt = 1700000000 =>
                requests[1].json.older_than_token = "1700000000:0:a::"
    /\ (pc = "await" /\ Len(requests) >= 2) =>
          /\ DecodedPage
          /\ requests[Len(requests)].json.older_than_token
                = lastResponse.body.last_token

\* C2 witness: the second request is in flight with the server's "t1" while
\* the clock has moved on since the first request took its token.
C2_Witness ==
    /\ pc = "await"
    /\ Len(requests) = 2
    /\ clock > startedAt
    /\ requests[1].json.older_than_token = "1699999999:0:a::"
    /\ lastResponse.body.last_token = "t1"
    /\ requests[2].json.older_than_token = "t1"

\* C3: once a page with more_available = false has been received no further
\* request is issued, whatever its last_token and items: the requests sent
\* are exactly the responses received, and a returned call made one request
\* per page.
C3_NoRequestAfterFinalPage ==
    /\ (GotPage /\ ~lastResponse.body.more_available) =>
          /\ pc \in {"done", "panicked"}
          /\ Len(requests) = nresp
    /\ result.tag = "ok" => Len(requests) = nresp

\* C3 witness: a single empty page with more_available = false and a
\* non-empty last_token ends the call after exactly one request.
C3_Witness ==
    /\ nresp = 1
    /\ Len(requests) = 1
    /\ lastResponse.body = [shape |-> TRUE, early |-> FALSE, items |-> <<>>,
                            last_token |-> "t1", more_available |-> FALSE]
    /\ result = Ok(<<>>)

\* C4: only a page with more_available = false ends the loop successfully;
\* after a decoded page with more_available = true the call has not returned
\* and either has the next request in flight or is at the head of the loop,
\* where sending the next request is the step it can take, however many
\* requests went before and also when the page is empty or its last_token
\* is empty or repeated.
C4_OnlyFlagEndsLoop ==
    /\ result.tag = "ok" => (DecodedPage /\ ~lastResponse.body.more_available)
    /\ (DecodedPage /\ lastResponse.body.more_available) =>
          /\ result = NotReturned
          /\ \/ /\ pc = "fetch"
                /\ Len(requests) = nresp
                /\ ENABLED (SendRequest /\ Len(requests') = nresp + 1)
             \/ pc = "await" /\ Len(requests) = nresp + 1

\* C4 witness: a third request follows an empty page whose empty last_token
\* repeats the one before it.
C4_Witness ==
    /\ pc = "await"
    /\ Len(requests) = 3
    /\ nresp = 2
    /\ lastResponse.body.items = <<>>
    /\ lastResponse.body.more_available
    /\ requests[2].json.older_than_token = ""
    /\ requests[3].json.older_than_token = ""

\* C5: when the fetch of page n fails (send() fails, or the body cannot be
\* decoded as a page) List::list returns an error at once: n requests were
\* sent, none is repeated, and none of the accumulated items is returned.
C5_FailureIsAllOrNothing ==
    (lastResponse.kind = "transport" \/ (lastResponse.kind = "http" /\ ~lastResponse.body.shape)) =>
        /\ pc = "done"
        /\ result.tag = "err"
        /\ result.value = <<>>
        /\ table = <<>>
        /\ Len(requests) = nresp

\* C6: a response with a non-2xx status is fatal whatever its body: the call
\* returns an error, and the body's items, last_token and more_available are
\* not used.
C6_Non2xxIsFatal ==
    (lastResponse.kind = "http" /\ ~Is2xx(lastResponse.status)) =>
        /\ pc = "done"
        /\ result.tag = "err"

\* C7: a page with an item whose `added` is not RFC-2822 makes List::list
\* return an error value to its caller, as a transport error does.
C7_BadDateIsDecodeError ==
    (GotPage /\ HasBadDate) =>
        /\ pc = "done"
        /\ result.tag = "err"

C9_CountAndFanIdConstant ==
    /\ pc # "main" => fan_id = (IF opts.fan_id.some THEN opts.fan_id.val
                                ELSE config.fan_id.val)
    /\ \A i \in 1..Len(requests) :
          /\ requests[i].json.count = 20
          /\ requests[i].json.fan_id = fan_id

\* C9 witness: the third request, after pages of two items and of none, still
\* asks for 20 items of the fan named on the command line.
C9_Witness ==
    /\ Len(requests) = 3
    /\ Len(items) = 2
    /\ opts.fan_id = Some(77)
    /\ requests[3].json = [fan_id |-> 77, older_than_token |-> "t1", count |-> 20]

\* C10: every request is a POST to the collection_items endpoint when the
\* wishlist flag is unset and to the wishlist_items endpoint when it is set,
\* the same endpoint for every page of the call.
C10_EndpointRouting ==
    \A i \in 1..Len(requests) :
        /\ requests[i].method = "POST"
        /\ requests[i].url = (IF opts.wishlist THEN WishlistUrl ELSE CollectionUrl)

\* C10 witness: a wishlist call has sent three requests, all to wishlist_items.
C10_Witness ==
    /\ opts.wishlist
    /\ Len(requests) = 3
    /\ \A i \in 1..3 : requests[i].url = WishlistUrl

\* C11: whenever Config::load runs after successful saves, it returns the
\* Config most recently saved, also when that Config's text is shorter than
\* what the file held before.
C11_SaveLoadRoundTrip ==
    (lastSaved.some /\ lastLoad.tag # "none") => lastLoad = LoadOk(lastSaved.val)

====
